---------------------------- MODULE Spec2Model ----------------------------
(***************************************************************************)
(* Model of the native backend of desktop-todolist (src-tauri/src):        *)
(*   - autostart.rs : normalize_path, set_autostart_impl,                  *)
(*                    is_autostart_enabled_impl (both variants)            *)
(*   - lib.rs       : the setup closure, the Moved listener, the debounce  *)
(*                    worker thread, the closure it runs on the main       *)
(*                    thread, and the set_always_on_top command            *)
(*   - storage.rs   : load_window_config / save_window_config              *)
(*                                                                         *)
(* The specifications of the module:                                       *)
(*   Spec           the window-state persister (lib.rs, storage.rs), its   *)
(*                  observer recording the timing of the Moved events      *)
(*   SpecData       the same program, its observer recording what is       *)
(*                  queried and written                                    *)
(*   FairSpec       SpecData with the fairness the scheduling gives        *)
(*   SpecToggle     the same program, its observer recording each          *)
(*                  set_always_on_top call                                 *)
(*   SpecAutostart  the autostart controller (autostart.rs, Windows)       *)
(*   SpecNonWindows the autostart functions of the non-Windows variant     *)
(*   SpecNormalize  normalize_path applied to bounded strings              *)
(*   SpecStorage    window.json loaded and saved (storage.rs)              *)
(*   SpecBoot       the setup closure of run() (lib.rs)                    *)
(* Each specification leaves the other subsystems' variables parked.       *)
(***************************************************************************)
EXTENDS Integers, Sequences, FiniteSets, TLC

VARIABLES
    \* ---- normalize_path harness ----
    np,          \* the input string p
    n1,          \* normalize_path(p)
    n2,          \* normalize_path(normalize_path(p))
    nstage       \* 0: nothing computed, 1: n1 computed, 2: n2 computed

VARIABLES
    \* ---- autostart controller: program state ----
    run_value,   \* the value "desktop-todolist" of HKCU\...\Run: Absent or a string
    exe_str,     \* the current executable's path (fixed for a behaviour)
    apc,         \* where set_autostart_impl stands: "idle" | "attempt" | "backoff"
    enabled,     \* the argument of the call in progress (or of the last call)
    value,       \* the string set_autostart_impl computed to write
    attempt,     \* the retry loop's index, 0 .. MAX_RETRIES - 1
    last_error,  \* the OS error code of the last failed attempt, 0 for none
    \* ---- autostart controller: what an observer of the calls records ----
    ret,         \* what the last set_autostart_impl returned
    tries,       \* store mutations attempted by the call in progress / last call
    fails,       \* how many of them failed
    slept,       \* the durations (ms) the call slept, in order
    absentAtCall,\* whether the store had no entry when the call began
    lastSet,     \* BoolName(enabled) of the most recent call that returned Ok, or "none"
    query        \* what is_autostart_enabled_impl last returned, "none" once the
                 \* store may have changed since

VARIABLES
    \* ---- window-state persister: program state ----
    winPos,      \* the live window's outer position
    winTop,      \* the live window's always-on-top flag
    file,        \* window.json
    rx,          \* the mpsc channel: the Moved events sent and not yet received
    wpc,         \* where the debounce worker stands: "recv" | "sleep" | "dispatch"
    sleepLeft,   \* milliseconds left of the worker's current sleep
    mainQueue,   \* closures handed to the main thread and not yet run
    \* ---- window-state persister: what an observer records ----
    observing,   \* what the observer of this behaviour records, fixed from the
                 \* start: "timing" (sinceMove, bursts, newInSleep), "data"
                 \* (owed, saveFailed, queryFailed, toggled, lastWriter) or
                 \* "call" (tcall)
    sinceMove,   \* milliseconds since the last Moved event, at most 300
    moves,       \* Moved events sent so far
    bursts,      \* bursts begun so far
    dispatches,  \* closures the worker has dispatched so far
    newInSleep,  \* a Moved event arrived during the worker's current sleep
    owed,        \* 0, or, once a Moved event has arrived between an empty poll
                 \* and its dispatch, the number of dispatches there must be
                 \* in all when that event has been served: the one that was
                 \* about to happen and one more
    saveFailed,  \* a save failed since the last Moved event
    queryFailed, \* a query of the live window failed since the last Moved event
    toggled,     \* BoolName(enabled) of the last set_always_on_top that returned
                 \* Ok, "none" once the live state has changed since
    lastWriter,  \* who wrote window.json last: "none" | "toggle" | "debounce"
    tcall        \* the last set_always_on_top call: its argument, what each
                 \* of its steps met and what it returned; seq alternates
                 \* with every call (kept under "call")

VARIABLES
    \* ---- storage.rs harness: window.json read and written ----
    disk,        \* the state of window.json and of its directory
    loadRet,     \* what the last load_window_config returned, or NoConfig
    saveRet      \* the last save_window_config: its argument and its result

VARIABLES
    \* ---- startup (the setup closure of run()) ----
    persisted,   \* what load_window_config returns at startup
    mainWindow,  \* whether get_webview_window("main") finds the window
    monitors,    \* the displays attached
    primary,     \* what primary_monitor() answers: one of them, or none
    build,       \* "debug" (overflow checks on) or "release" (off)
    livePos,     \* the live window's position
    liveTop,     \* the live window's always-on-top flag
    setupState,  \* "start" | "done" | "panicked"
    listening,   \* the Moved listener and the debounce worker are installed
    positionSet, \* set_position was called with the persisted position
    overflowed   \* a sum of the position test left the i32 range

normVars == <<np, n1, n2, nstage>>

bootVars == <<persisted, mainWindow, monitors, primary, build, livePos,
              liveTop, setupState, listening, positionSet, overflowed>>

storVars == <<disk, loadRet, saveRet>>

auxVars == <<storVars, bootVars>>

winVars == <<winPos, winTop, file, rx, wpc, sleepLeft, mainQueue, observing,
             sinceMove,
             moves, bursts, dispatches, newInSleep, owed, saveFailed,
             queryFailed, toggled, lastWriter, tcall>>

autoVars == <<run_value, exe_str, apc, enabled, value, attempt, last_error,
              ret, tries, fails, slept, absentAtCall, lastSet, query>>

vars == <<normVars, autoVars, winVars, auxVars>>

(***************************************************************************)
(* Strings are sequences of one-character strings.  The alphabet holds a   *)
(* letter, the space (the only whitespace considered) and the double       *)
(* quote.                                                                  *)
(***************************************************************************)
Quote == "\""

Space == " "

Alphabet == {"a", Space, Quote}

\* Longest string the normalize_path harness enumerates.
MaxLen == 4

Strs(n) == UNION {[1..k -> Alphabet] : k \in 0..n}

\* char::is_whitespace restricted to the alphabet.
IsWhitespace(c) == c = Space

Last(s) == s[Len(s)]

Front(s) == SubSeq(s, 1, Len(s) - 1)

RECURSIVE TrimStart(_)
\* str::trim_start : drop the leading run of whitespace.
TrimStart(s) ==
    IF s # <<>> /\ IsWhitespace(Head(s)) THEN TrimStart(Tail(s)) ELSE s

RECURSIVE TrimEnd(_)
\* str::trim_end : drop the trailing run of whitespace.
TrimEnd(s) ==
    IF s # <<>> /\ IsWhitespace(Last(s)) THEN TrimEnd(Front(s)) ELSE s

\* str::trim
Trim(s) == TrimEnd(TrimStart(s))

RECURSIVE TrimStartMatches(_, _)
\* str::trim_start_matches(c) : drop EVERY leading occurrence of c.
TrimStartMatches(s, c) ==
    IF s # <<>> /\ Head(s) = c THEN TrimStartMatches(Tail(s), c) ELSE s

RECURSIVE TrimEndMatches(_, _)
\* str::trim_end_matches(c) : drop EVERY trailing occurrence of c.
TrimEndMatches(s, c) ==
    IF s # <<>> /\ Last(s) = c THEN TrimEndMatches(Front(s), c) ELSE s

\* autostart.rs normalize_path:
\*   path.trim().trim_start_matches('"').trim_end_matches('"').trim()
normalize_path(path) ==
    Trim(TrimEndMatches(TrimStartMatches(Trim(path), Quote), Quote))

(***************************************************************************)
(* Window-state persister (lib.rs run(), set_always_on_top; storage.rs).   *)
(*                                                                         *)
(* Threads.  The Moved listener, the closure handed to run_on_main_thread  *)
(* and the synchronous command set_always_on_top all run on the main       *)
(* thread, one after the other, so each is one atomic action.  The         *)
(* debounce worker is a thread of its own: its steps (recv, the end of a   *)
(* sleep with the try_recv that follows, run_on_main_thread) interleave    *)
(* freely with the main thread's actions.                                  *)
(*                                                                         *)
(* Time.  sleepLeft counts down the worker's current sleep and sinceMove   *)
(* counts up since the last Moved event (it stops at 300, beyond which it  *)
(* is not compared).  thread::sleep guarantees only a minimum, so nothing  *)
(* forces the worker to act the moment its sleep has run out.              *)
(*                                                                         *)
(* The state is the one after setup() has run to its end (the main window  *)
(* exists, the listener is installed, the worker is spawned).              *)
(***************************************************************************)
\* How a returned or passed bool is recorded.
BoolName(b) == IF b THEN "true" ELSE "false"

\* lib.rs line 151: Duration::from_millis(300)
QUIESCENCE_MS == 300

\* storage.rs default_window_config(): x: 100, y: 100, always_on_top: true
default_window_config == [x |-> 100, y |-> 100, always_on_top |-> TRUE]

\* The positions the window is moved between: the default one and another.
Positions == {[x |-> 100, y |-> 100], [x |-> 640, y |-> 480]}

\* The amounts by which time advances in one step.
Delays == {50, 100}

\* Moved events sent in one behaviour.
MaxMoves == 3

WindowConfig(pos, top) == [x |-> pos.x, y |-> pos.y, always_on_top |-> top]

\* window.json: missing, or holding a complete record.
NoFile == [present |-> FALSE, config |-> default_window_config]

FileWith(config) == [present |-> TRUE, config |-> config]

Files ==
    {NoFile} \cup {FileWith(WindowConfig(p, t)) : p \in Positions, t \in BOOLEAN}

\* ---- storage.rs: window.json as bytes on disk -------------------------

\* The keys of the JSON object: the serde names of the fields of
\* WindowConfig (lines 35-43) and of WindowConfigRaw (lines 47-54).
WindowConfigKeys == {"x", "y", "alwaysOnTop"}

\* The keys WindowConfigRaw reads (lines 47-54); others are ignored.
WindowConfigRawKeys == {"x", "y", "alwaysOnTop"}

\* The field values enumerated: the default 100 and two others.
CoordValues == {-7, 5, 100}

Configs ==
    [x : CoordValues, y : CoordValues, always_on_top : BOOLEAN]

\* serde_json::to_string_pretty(config), line 189: an object with the three
\* keys.
to_json(config) ==
    [k \in WindowConfigKeys |->
        IF k = "x" THEN [int |-> config.x, bool |-> FALSE]
        ELSE IF k = "y" THEN [int |-> config.y, bool |-> FALSE]
        ELSE [int |-> 0, bool |-> config.always_on_top]]

\* A well-formed object holding any subset of the keys.
JsonObjects ==
    UNION {{[k \in D |-> to_json(c)[k]] : c \in Configs} :
               D \in SUBSET WindowConfigKeys}

\* What read_to_string and the directory lookup can find: the application
\* data directory cannot be resolved or created; no file; a file that
\* cannot be read; content that is not an object of the expected shape;
\* a well-formed object.
DiskStates ==
    {[kind |-> k, obj |-> <<>>] :
         k \in {"nodir", "missing", "unreadable", "malformed"}}
    \cup {[kind |-> "record", obj |-> o] : o \in JsonObjects}

OkConfig(c) == [status |-> "ok", config |-> c]

ErrConfig == [status |-> "err", config |-> default_window_config]

NoConfig == [status |-> "none", config |-> default_window_config]

\* serde_json::from_str::<WindowConfigRaw>, line 172: the Option fields, a
\* missing key giving None.
from_json(o) ==
    [k \in WindowConfigRawKeys |->
        IF k \in DOMAIN o THEN [some |-> TRUE, val |-> o[k]]
        ELSE [some |-> FALSE, val |-> [int |-> 0, bool |-> FALSE]]]

RawFieldsSwapped(raw) ==
    [x |-> IF raw["y"].some THEN raw["y"].val.int ELSE 100,
     y |-> IF raw["x"].some THEN raw["x"].val.int ELSE 100,
     always_on_top |-> IF raw["alwaysOnTop"].some
                       THEN raw["alwaysOnTop"].val.bool ELSE TRUE]

\* lines 176-180: each field, or its default.
RawFields(raw) ==
    [x |-> IF raw["x"].some THEN raw["x"].val.int ELSE 100,
     y |-> IF raw["y"].some THEN raw["y"].val.int ELSE 100,
     always_on_top |-> IF raw["alwaysOnTop"].some
                       THEN raw["alwaysOnTop"].val.bool ELSE TRUE]

\* load_window_config, lines 165-181, as a Result.
LoadResult(d) ==
    CASE d.kind = "nodir" -> ErrConfig
      [] d.kind = "missing" -> OkConfig(default_window_config)
      [] d.kind = "unreadable" -> ErrConfig
      [] d.kind = "malformed" -> OkConfig(default_window_config)
      [] d.kind = "record" -> OkConfig(RawFields(from_json(d.obj)))

\* save_window_config, lines 187-192, on the disk: nothing is written when
\* the path cannot be resolved or the write fails.
SaveResult(d, config, writeOk) ==
    IF d.kind = "nodir" \/ ~writeOk
    THEN [status |-> "err", disk |-> d]
    ELSE [status |-> "ok",
          disk |-> [kind |-> "record", obj |-> to_json(config)]]

\* The disk state behind a file of the window-state persister.
DiskOf(f) ==
    IF f.present THEN [kind |-> "record", obj |-> to_json(f.config)]
    ELSE [kind |-> "missing", obj |-> <<>>]

\* storage.rs load_window_config, lines 165-181, for a missing file or a
\* complete record: the config of the Ok it returns.
load_window_config(f) == LoadResult(DiskOf(f)).config

StorParked ==
    /\ disk = [kind |-> "missing", obj |-> <<>>]
    /\ loadRet = NoConfig
    /\ saveRet = [status |-> "none", config |-> default_window_config]

BootParked ==
    /\ persisted = NoConfig
    /\ mainWindow = FALSE
    /\ monitors = {}
    /\ primary = [some |-> FALSE, mon |-> "none"]
    /\ build = "release"
    /\ livePos = [x |-> 100, y |-> 100]
    /\ liveTop = TRUE
    /\ setupState = "start"
    /\ listening = FALSE
    /\ positionSet = FALSE
    /\ overflowed = FALSE

AuxParked == StorParked /\ BootParked

\* storage.rs save_window_config, lines 187-192: overwrite the record, or
\* leave it as it is when the write fails.
save_window_config(f, config, saveOk) == IF saveOk THEN FileWith(config) ELSE f

SleepMillisShort == QUIESCENCE_MS \div 3

\* lib.rs line 151: the length of one sleep of the debounce loop.
SleepMillis == QUIESCENCE_MS

StaleConfig(posOk, topOk) ==
    LET c == load_window_config(file)
    IN  [x |-> c.x, y |-> c.y, always_on_top |-> winTop]

\* lib.rs lines 159-165: the record the debounced closure writes, queried
\* from the live window when it runs; a failed query yields (100, 100),
\* respectively true.
QueriedConfig(posOk, topOk) ==
    [x |-> IF posOk THEN winPos.x ELSE 100,
     y |-> IF posOk THEN winPos.y ELSE 100,
     always_on_top |-> IF topOk THEN winTop ELSE TRUE]

TogglePositionNoFallback(posOk, loadOk) ==
    IF posOk THEN [x |-> winPos.x, y |-> winPos.y] ELSE [x |-> 100, y |-> 100]

\* lib.rs lines 58-66: the live position, else the persisted one, else
\* (100, 100).
TogglePosition(posOk, loadOk) ==
    IF posOk THEN [x |-> winPos.x, y |-> winPos.y]
    ELSE IF loadOk
         THEN LET c == load_window_config(file) IN [x |-> c.x, y |-> c.y]
         ELSE [x |-> 100, y |-> 100]

ToggleConfigStaleFlag(pos, en) == WindowConfig(pos, winTop)

\* lib.rs lines 67-71: the record set_always_on_top writes.
ToggleConfig(pos, en) == WindowConfig(pos, en)

\* Whether the file holds exactly the live window state.
Persisted == file = FileWith(WindowConfig(winPos, winTop))

\* The worker waits in recv(), the channel is empty and no closure is left
\* to run: nothing is pending.
IdleAll == wpc = "recv" /\ rx = <<>> /\ mainQueue = 0

\* No set_always_on_top call yet.
NoCall ==
    [seq |-> 0, en |-> FALSE, applyOk |-> FALSE, posOk |-> FALSE,
     loadOk |-> FALSE, saveOk |-> FALSE, ret |-> "none"]

WinInit(obs) ==
    /\ observing = obs
    /\ winPos \in Positions
    /\ winTop \in BOOLEAN
    /\ file \in Files
    /\ rx = <<>>
    /\ wpc = "recv"
    /\ sleepLeft = 0
    /\ mainQueue = 0
    /\ sinceMove = 0
    /\ moves = 0
    /\ bursts = 0
    /\ dispatches = 0
    /\ newInSleep = FALSE
    /\ owed = 0
    /\ saveFailed = FALSE
    /\ queryFailed = FALSE
    /\ toggled = "none"
    /\ lastWriter = "none"
    /\ tcall = NoCall

WinParked ==
    /\ observing = "none"
    /\ winPos = [x |-> 100, y |-> 100]
    /\ winTop = TRUE
    /\ file = NoFile
    /\ rx = <<>>
    /\ wpc = "recv"
    /\ sleepLeft = 0
    /\ mainQueue = 0
    /\ sinceMove = 0
    /\ moves = 0
    /\ bursts = 0
    /\ dispatches = 0
    /\ newInSleep = FALSE
    /\ owed = 0
    /\ saveFailed = FALSE
    /\ queryFailed = FALSE
    /\ toggled = "none"
    /\ lastWriter = "none"
    /\ tcall = NoCall

\* What a variable of the timing record, of the data record or of the call
\* record becomes in a step: its new value when that record is kept, else
\* what it was.
Timing(new, old) == IF observing = "timing" THEN new ELSE old

Data(new, old) == IF observing = "data" THEN new ELSE old

Call(new, old) == IF observing = "call" THEN new ELSE old

\* An event begins a new burst when it is the first one or comes 300ms or
\* more after the previous one.
BeginsBurst == moves = 0 \/ sinceMove >= 300

\* lib.rs lines 142-146: the window was moved to p and the listener sends
\* () into the channel.  The observer tags the event with BeginsBurst; the
\* program never reads the tag.
OnMoved(p) ==
    /\ moves < MaxMoves
    /\ winPos' = p
    /\ rx' = Append(rx, BeginsBurst)
    /\ moves' = moves + 1
    /\ bursts' = Timing(IF BeginsBurst THEN bursts + 1 ELSE bursts, bursts)
    /\ sinceMove' = 0
    /\ newInSleep' = Timing(newInSleep \/ wpc = "sleep", newInSleep)
    /\ owed' = Data(IF wpc = "dispatch" THEN dispatches + 2 ELSE owed, owed)
    /\ saveFailed' = FALSE
    /\ queryFailed' = FALSE
    /\ toggled' = "none"
    /\ UNCHANGED <<winTop, file, wpc, sleepLeft, mainQueue, dispatches,
                   lastWriter, observing, tcall, autoVars, normVars,
                   auxVars>>

WorkerRecvSpurious ==
    /\ wpc = "recv"
    /\ wpc' = "sleep"
    /\ sleepLeft' = SleepMillis
    /\ newInSleep' = FALSE
    /\ UNCHANGED <<winPos, winTop, file, rx, mainQueue, sinceMove, moves,
                   bursts, dispatches, owed, saveFailed, queryFailed, toggled,
                   lastWriter, observing, tcall, autoVars, normVars,
                   auxVars>>

\* lib.rs line 148: rx.recv() returns an event; line 151: the sleep begins.
WorkerRecv ==
    /\ wpc = "recv"
    /\ rx # <<>>
    /\ rx' = Tail(rx)
    /\ wpc' = "sleep"
    /\ sleepLeft' = SleepMillis
    /\ newInSleep' = FALSE
    /\ UNCHANGED <<winPos, winTop, file, mainQueue, sinceMove, moves, bursts,
                   dispatches, owed, saveFailed, queryFailed, toggled,
                   lastWriter, observing, tcall, autoVars, normVars,
                   auxVars>>

\* lib.rs lines 151-154: the sleep is over; try_recv() takes ONE event and
\* the loop sleeps again, or finds none and the loop breaks.
WorkerPoll ==
    /\ wpc = "sleep"
    /\ sleepLeft = 0
    /\ IF rx # <<>>
       THEN /\ rx' = Tail(rx)
            /\ sleepLeft' = SleepMillis
            /\ newInSleep' = FALSE
            /\ wpc' = "sleep"
       ELSE /\ wpc' = "dispatch"
            /\ UNCHANGED <<rx, sleepLeft, newInSleep>>
    /\ UNCHANGED <<winPos, winTop, file, mainQueue, sinceMove, moves, bursts,
                   dispatches, owed, saveFailed, queryFailed, toggled,
                   lastWriter, observing, tcall, autoVars, normVars,
                   auxVars>>

\* lib.rs lines 156-157: hand the closure to the main thread, loop back to
\* recv().
WorkerDispatch ==
    /\ wpc = "dispatch"
    /\ mainQueue' = mainQueue + 1
    /\ dispatches' = dispatches + 1
    /\ wpc' = "recv"
    /\ UNCHANGED <<winPos, winTop, file, rx, sleepLeft, sinceMove, moves,
                   bursts, newInSleep, owed, saveFailed, queryFailed, toggled,
                   lastWriter, observing, tcall, autoVars, normVars,
                   auxVars>>

\* lib.rs lines 158-167: the main thread runs one dispatched closure: query
\* the live window, save, ignore the save's result.
MainRunWrite(posOk, topOk, saveOk) ==
    /\ mainQueue > 0
    /\ mainQueue' = mainQueue - 1
    /\ file' = save_window_config(file, QueriedConfig(posOk, topOk), saveOk)
    /\ queryFailed' = Data(queryFailed \/ ~posOk \/ ~topOk, queryFailed)
    /\ saveFailed' = Data(saveFailed \/ ~saveOk, saveFailed)
    /\ lastWriter' = Data(IF saveOk THEN "debounce" ELSE lastWriter, lastWriter)
    /\ UNCHANGED <<winPos, winTop, rx, wpc, sleepLeft, sinceMove, moves,
                   bursts, dispatches, newInSleep, owed, toggled, observing,
                   tcall, autoVars, normVars, auxVars>>

\* lib.rs lines 55 and 72-73: what set_always_on_top returns; the `?` after
\* the apply and after the save pass the error on.
ToggleReturn(applyOk, saveOk) == IF applyOk /\ saveOk THEN "ok" ELSE "err"

\* The record of a call in tcall.
ToggleCall(en, applyOk, posOk, loadOk, saveOk) ==
    [seq |-> 1 - tcall.seq, en |-> en, applyOk |-> applyOk, posOk |-> posOk,
     loadOk |-> loadOk, saveOk |-> saveOk,
     ret |-> ToggleReturn(applyOk, saveOk)]

\* lib.rs lines 51-74: set_always_on_top(en).  A failed apply returns Err
\* before anything is written; otherwise one record is written at once and
\* the call returns the save's result.
SetAlwaysOnTop(en, applyOk, posOk, loadOk, saveOk) ==
    /\ tcall' = Call(ToggleCall(en, applyOk, posOk, loadOk, saveOk), tcall)
    /\ IF ~applyOk
       THEN UNCHANGED <<winTop, file, queryFailed, saveFailed, toggled,
                        lastWriter>>
       ELSE /\ winTop' = en
            /\ file' = save_window_config(
                           file,
                           ToggleConfig(TogglePosition(posOk, loadOk), en),
                           saveOk)
            /\ queryFailed' = Data(queryFailed \/ ~posOk, queryFailed)
            /\ saveFailed' = Data(saveFailed \/ ~saveOk, saveFailed)
            /\ toggled' = Data(IF saveOk THEN BoolName(en) ELSE "none",
                               toggled)
            /\ lastWriter' = Data(IF saveOk THEN "toggle" ELSE lastWriter,
                                  lastWriter)
    /\ UNCHANGED <<winPos, rx, wpc, sleepLeft, mainQueue, sinceMove, moves,
                   bursts, dispatches, newInSleep, owed, observing, autoVars,
                   normVars, auxVars>>

Min(a, b) == IF a < b THEN a ELSE b

Max(a, b) == IF a > b THEN a ELSE b

\* d milliseconds pass.
Tick(d) ==
    /\ sleepLeft' = Max(sleepLeft - d, 0)
    /\ sinceMove' = Timing(Min(sinceMove + d, 300), sinceMove)
    /\ UNCHANGED <<winPos, winTop, file, rx, wpc, mainQueue, moves, bursts,
                   dispatches, newInSleep, owed, saveFailed, queryFailed,
                   toggled, lastWriter, observing, tcall, autoVars, normVars,
                   auxVars>>

Moved == \E p \in Positions : OnMoved(p)

RunWrite == \E posOk, topOk, saveOk \in BOOLEAN : MainRunWrite(posOk, topOk, saveOk)

\* The outcome of a step the call does not reach is not drawn: nothing is
\* queried or saved after a failed apply, and the persisted record is
\* loaded only after a failed query of the live position.
Toggle ==
    \E en, applyOk \in BOOLEAN :
        \E posOk, saveOk \in (IF applyOk THEN BOOLEAN ELSE {TRUE}) :
            \E loadOk \in (IF applyOk /\ ~posOk THEN BOOLEAN ELSE {TRUE}) :
                SetAlwaysOnTop(en, applyOk, posOk, loadOk, saveOk)

TimePasses == \E d \in Delays : Tick(d)

Next ==
    \/ Moved
    \/ WorkerRecv
    \/ WorkerPoll
    \/ WorkerDispatch
    \/ RunWrite
    \/ Toggle
    \/ TimePasses

(***************************************************************************)
(* Autostart controller (autostart.rs, Windows variant).                   *)
(*                                                                         *)
(* The registration store is the single value RUN_VALUE_NAME under the     *)
(* per-user Run key.  OS calls return an error code, 0 for success.  Calls *)
(* are made one at a time; the store changes only through                  *)
(* set_autostart_impl.                                                     *)
(***************************************************************************)
\* A registry value: missing, or present with string data.
Absent == [present |-> FALSE, data |-> <<>>]

Stored(s) == [present |-> TRUE, data |-> s]

\* const MAX_RETRIES: u32 = 3
MAX_RETRIES == 3

\* const RETRY_DELAY_MS: u64 = 100
RETRY_DELAY_MS == 100

\* Windows ERROR_ACCESS_DENIED, the code the retry loop compares with.
ERROR_ACCESS_DENIED == 5

\* Windows ERROR_FILE_NOT_FOUND, which io::Error::kind() reports as NotFound.
ERROR_FILE_NOT_FOUND == 2

\* The error codes the OS is let to answer with: not found, access denied,
\* a sharing violation, and "not supported" (50), whose decimal form starts
\* with the digit 5.
OsErrors == {ERROR_FILE_NOT_FOUND, ERROR_ACCESS_DENIED, 32, 50}

\* Longest executable path and longest pre-existing store value enumerated.
MaxPathLen == 3

\* std::env::current_exe() on Windows: an absolute path.  It is not empty,
\* holds no double quote (no Windows file name can) and neither starts nor
\* ends with whitespace; it may hold spaces inside.
ExePaths ==
    {s \in Strs(MaxPathLen) :
        /\ s # <<>>
        /\ \A i \in 1..Len(s) : s[i] # Quote
        /\ ~IsWhitespace(Head(s))
        /\ ~IsWhitespace(Last(s))}

\* What the store may hold before the first call: nothing, or any string
\* (an earlier installation, another tool, the user).
StoredValues == {Absent} \cup {Stored(s) : s \in Strs(MaxPathLen)}

Contains(s, c) == \E i \in 1..Len(s) : s[i] = c

AlwaysQuoted(exe) == <<Quote>> \o exe \o <<Quote>>

\* lines 38-43: the value to write, quoted when the path holds a space.
RunValueFor(exe) ==
    IF Contains(exe, Space) THEN <<Quote>> \o exe \o <<Quote>> ELSE exe

\* lines 49-51: open with KEY_WRITE, or else with KEY_SET_VALUE; the error
\* that surfaces is the second open's.
OpenRunKey(e1, e2) == IF e1 = 0 THEN 0 ELSE e2

RECURSIVE LeadingDigit(_)
LeadingDigit(n) == IF n < 10 THEN n ELSE LeadingDigit(n \div 10)

\* lines 53-60: the open error is classified by searching its formatted
\* message "... (os error N)" for the substring "os error 5" (or for the
\* access-denied wording, which only error 5 produces): every N whose
\* decimal form starts with 5 matches.
OpenErrorHasGuidance(code) == LeadingDigit(code) = 5

\* line 89: inside the retry loop the code is compared exactly.
LoopErrorHasGuidance(code) == code = ERROR_ACCESS_DENIED

NeverNotFound(code) == FALSE

\* line 73: e.kind() == io::ErrorKind::NotFound
IsNotFound(code) == code = ERROR_FILE_NOT_FOUND

SwallowEveryDeleteError(raw) == 0

\* lines 69-79: the result of the delete branch; a NotFound error is Ok.
DeleteResult(raw) == IF raw # 0 /\ IsNotFound(raw) THEN 0 ELSE raw

BackoffFromZero(att) == RETRY_DELAY_MS * att

\* lines 91 and 102: thread::sleep(RETRY_DELAY_MS * (attempt + 1))
BackoffMs(att) == RETRY_DELAY_MS * (att + 1)

\* lines 135-137: get_value(..).unwrap_or_default()
CurrentValue(rv) == IF rv.present THEN rv.data ELSE <<>>

CompareRaw(current, exe) == current # <<>> /\ current = exe

\* lines 139-143: compare after normalizing both sides.
EnabledTest(current, exe) ==
    LET normalized_current == normalize_path(current)
        normalized_exe == normalize_path(exe)
    IN  normalized_current # <<>> /\ normalized_current = normalized_exe

NoReturn == [status |-> "none", stage |-> "none", code |-> 0, guidance |-> FALSE]

ReturnOk == [status |-> "ok", stage |-> "loop", code |-> 0, guidance |-> FALSE]

ReturnErr(stage, code, guidance) ==
    [status |-> "err", stage |-> stage, code |-> code, guidance |-> guidance]

AutoInit ==
    /\ run_value \in StoredValues
    /\ exe_str \in ExePaths
    /\ apc = "idle"
    /\ enabled = FALSE
    /\ value = <<>>
    /\ attempt = 0
    /\ last_error = 0
    /\ ret = NoReturn
    /\ tries = 0
    /\ fails = 0
    /\ slept = <<>>
    /\ absentAtCall = FALSE
    /\ lastSet = "none"
    /\ query = "none"

AutoParked ==
    /\ run_value = Absent
    /\ exe_str = <<"a">>
    /\ apc = "idle"
    /\ enabled = FALSE
    /\ value = <<>>
    /\ attempt = 0
    /\ last_error = 0
    /\ ret = NoReturn
    /\ tries = 0
    /\ fails = 0
    /\ slept = <<>>
    /\ absentAtCall = FALSE
    /\ lastSet = "none"
    /\ query = "none"

\* set_autostart_impl(en), lines 19-64: compute the value, open the Run
\* key (an open error returns at once, through `?`), enter the retry loop.
SetAutostartCall(en) ==
    /\ apc = "idle"
    /\ enabled' = en
    /\ value' = RunValueFor(exe_str)
    /\ tries' = 0
    /\ fails' = 0
    /\ slept' = <<>>
    /\ absentAtCall' = (run_value = Absent)
    /\ query' = "none"
    /\ attempt' = 0
    /\ last_error' = 0
    /\ \E e1, e2 \in {0} \cup OsErrors :
         LET err == OpenRunKey(e1, e2) IN
         IF err = 0
         THEN /\ apc' = "attempt"
              /\ ret' = NoReturn
         ELSE /\ apc' = "idle"
              /\ ret' = ReturnErr("open", err, OpenErrorHasGuidance(err))
    /\ UNCHANGED <<run_value, exe_str, lastSet, normVars, winVars, auxVars>>

\* What the OS may answer to one mutation of the store: set_value succeeds
\* or fails; delete_value of a missing value reports not-found, of a present
\* value succeeds or fails otherwise.
MutationAnswers ==
    IF enabled THEN {0} \cup OsErrors
    ELSE IF run_value = Absent THEN {ERROR_FILE_NOT_FOUND}
    ELSE {0} \cup (OsErrors \ {ERROR_FILE_NOT_FOUND})

\* One iteration of the retry loop, lines 65-109.
Attempt ==
    /\ apc = "attempt"
    /\ \E raw \in MutationAnswers :
         LET result == IF enabled THEN raw ELSE DeleteResult(raw) IN
         /\ run_value' = IF raw = 0
                         THEN (IF enabled THEN Stored(value) ELSE Absent)
                         ELSE run_value
         /\ tries' = tries + 1
         /\ IF result = 0
            THEN \* line 83: return Ok(())
                 /\ apc' = "idle"
                 /\ ret' = ReturnOk
                 /\ lastSet' = BoolName(enabled)
                 /\ UNCHANGED <<last_error, fails, slept>>
            ELSE /\ last_error' = result
                 /\ fails' = fails + 1
                 /\ lastSet' = lastSet
                 /\ IF attempt < MAX_RETRIES - 1
                    THEN \* lines 90-92 and 101-103: sleep, then continue
                         /\ apc' = "backoff"
                         /\ slept' = Append(slept, BackoffMs(attempt))
                         /\ ret' = ret
                    ELSE \* lines 94-97 and 105: the final error
                         /\ apc' = "idle"
                         /\ slept' = slept
                         /\ ret' = ReturnErr("loop", result,
                                             LoopErrorHasGuidance(result))
    /\ UNCHANGED <<exe_str, enabled, value, attempt, absentAtCall, query,
                   normVars, winVars, auxVars>>

\* The sleep is over: `continue` with the next attempt.
Backoff ==
    /\ apc = "backoff"
    /\ attempt' = attempt + 1
    /\ apc' = "attempt"
    /\ UNCHANGED <<run_value, exe_str, enabled, value, last_error, ret, tries,
                   fails, slept, absentAtCall, lastSet, query, normVars,
                   winVars, auxVars>>

\* is_autostart_enabled_impl, lines 117-144: open the key for reading (an
\* open error is returned), read the value, compare.
IsAutostartEnabled ==
    /\ apc = "idle"
    /\ \E e \in {0} \cup OsErrors :
         query' = IF e # 0 THEN "err"
                  ELSE BoolName(EnabledTest(CurrentValue(run_value),
                                            exe_str))
    /\ UNCHANGED <<run_value, exe_str, apc, enabled, value, attempt,
                   last_error, ret, tries, fails, slept, absentAtCall,
                   lastSet, normVars, winVars, auxVars>>

AutoNext ==
    \/ \E en \in BOOLEAN : SetAutostartCall(en)
    \/ Attempt
    \/ Backoff
    \/ IsAutostartEnabled


(***************************************************************************)
(* C5: Autostart state machine.  For any sequence of set_autostart and     *)
(* is_autostart_enabled calls made one at a time with a fixed executable   *)
(* path, a boolean returned by is_autostart_enabled is the `enabled`       *)
(* argument of the most recent successful set_autostart; the query never   *)
(* changes the store, and neither does a failed attempt or a failed open,  *)
(* so a failed set_autostart leaves the answer unchanged.                  *)
(***************************************************************************)
C5_AutostartStateMachine ==
    /\ []((query \in {"true", "false"} /\ lastSet # "none") => query = lastSet)
    /\ [][(\/ query' \notin {query, "none"}
           \/ fails' = fails + 1
           \/ ret'.stage = "open") => run_value' = run_value]_vars

\* A path with a space was enabled (stored quoted), a later disable failed,
\* and the query still answers true.
C5_Witness ==
    /\ query = "true"
    /\ lastSet = "true"
    /\ Contains(exe_str, Space)
    /\ ~enabled
    /\ ret.status = "err"
    /\ ret.stage = "loop"

(***************************************************************************)
(* C6: whenever is_autostart_enabled reads the store and the store has no  *)
(* value under the fixed name it returns false, not an error; when the     *)
(* store has a value it returns true if and only if normalize(stored)      *)
(* equals normalize(current executable path).  (A call that cannot open    *)
(* the Run key at all returns the open error before it looks for the       *)
(* value; the claim's case is the lookup, lines 135-143.)                  *)
(***************************************************************************)
C6_EnabledIffNormalizedEqual ==
    query \in {"true", "false"} =>
        IF ~run_value.present
        THEN query = "false"
        ELSE (query = "true") <=>
                 (normalize_path(run_value.data) = normalize_path(exe_str))

\* The answer is true for a stored string that differs from the path and
\* equals it only after normalization.
C6_Witness ==
    /\ query = "true"
    /\ run_value.present
    /\ run_value.data # exe_str

(***************************************************************************)
(* C7: Idempotent disable.  set_autostart(false) on a store without the    *)
(* entry succeeds at its first attempt at the store: the not-found error   *)
(* of the delete is swallowed, there is no retry and no backoff, and the   *)
(* store is left without the entry; every such call ends the same way.     *)
(***************************************************************************)
C7_IdempotentDisable ==
    (~enabled /\ absentAtCall /\ ret.stage # "open") =>
        /\ apc # "backoff"
        /\ slept = <<>>
        /\ fails = 0
        /\ ~run_value.present
        /\ apc = "attempt" => tries = 0
        /\ apc = "idle" => (ret.status = "ok" /\ tries = 1)

\* A disable on an empty store has returned Ok after one attempt.
C7_Witness ==
    /\ ~enabled
    /\ absentAtCall
    /\ apc = "idle"
    /\ ret.status = "ok"
    /\ tries = 1
    /\ lastSet = "false"

C9_PermissionRetriedAndClassified ==
    (apc = "idle" /\ ret.status = "err") =>
        /\ ret.code = 5 => (slept # <<>> /\ ret.guidance)
        /\ ret.code # 5 => ~ret.guidance

(***************************************************************************)
(* normalize_path harness: the input is any string of length <= MaxLen.    *)
(***************************************************************************)
NormInit ==
    /\ AutoParked
    /\ WinParked
    /\ AuxParked
    /\ np \in Strs(MaxLen)
    /\ n1 = <<>>
    /\ n2 = <<>>
    /\ nstage = 0

NormParked ==
    /\ np = <<>>
    /\ n1 = <<>>
    /\ n2 = <<>>
    /\ nstage = 0

\* First application: n1 := normalize_path(p).
NormalizeOnce ==
    /\ nstage = 0
    /\ n1' = normalize_path(np)
    /\ nstage' = 1
    /\ UNCHANGED <<np, n2, autoVars, winVars, auxVars>>

\* Second application: n2 := normalize_path(n1).
NormalizeTwice ==
    /\ nstage = 1
    /\ n2' = normalize_path(n1)
    /\ nstage' = 2
    /\ UNCHANGED <<np, n1, autoVars, winVars, auxVars>>

NormNext == NormalizeOnce \/ NormalizeTwice

SpecNormalize == NormInit /\ [][NormNext]_vars

InitAutostart == AutoInit /\ NormParked /\ WinParked /\ AuxParked

SpecAutostart == InitAutostart /\ [][AutoNext]_vars

Init == WinInit("timing") /\ AutoParked /\ NormParked /\ AuxParked

\* The window-state persister, with the timing of the Moved events recorded.
Spec == Init /\ [][Next]_vars

InitData == WinInit("data") /\ AutoParked /\ NormParked /\ AuxParked

\* The window-state persister, with the written data recorded.
SpecData == InitData /\ [][Next]_vars

\* The worker thread is scheduled, the main event loop runs the closures
\* handed to it, and time passes.
FairSpec ==
    /\ SpecData
    /\ WF_vars(WorkerRecv)
    /\ WF_vars(WorkerPoll)
    /\ WF_vars(WorkerDispatch)
    /\ WF_vars(RunWrite)
    /\ WF_vars(TimePasses)

(***************************************************************************)
(* Claims about the window-state persister.                                *)
(***************************************************************************)

\* C1: debounce collapse.  A burst of Moved events, each less than 300ms
\* after the one before, is not written once per event: whenever the worker
\* is out of its sleep loop (about to dispatch, or back in recv()), either
\* the burst has gone quiet for at least 300ms or the next event it will
\* receive begins a new burst, so a write is never dispatched in the middle
\* of a burst; the worker never dispatches more writes than bursts have
\* begun; and once nothing is pending after at least one burst, at least one
\* write has been dispatched.
C1_DebounceCollapse ==
    /\ wpc \in {"recv", "dispatch"} =>
           IF rx = <<>> THEN moves = 0 \/ sinceMove >= 300 ELSE Head(rx)
    /\ dispatches <= bursts
    /\ (IdleAll /\ bursts >= 1) => dispatches >= 1

\* A single burst of three events has been collapsed into one write, which
\* has landed.
C1_Witness ==
    /\ IdleAll
    /\ moves = 3
    /\ bursts = 1
    /\ dispatches = 1
    /\ Persisted
    /\ winPos # [x |-> 100, y |-> 100]

\* C2: draining rule.  When a sleep ends and the worker goes back to sleep
\* instead of writing, a Moved event arrived during the sleep that just
\* ended; put the other way round, the write is dispatched as soon as one
\* full 300ms sleep has passed during which no new event arrived.
C2_ResleepOnlyForNewEvent ==
    [][(wpc = "sleep" /\ wpc' = "sleep" /\ Len(rx') < Len(rx)) => newInSleep]_vars

C10_NormalizeIdempotent == nstage = 2 => n2 = n1

(***************************************************************************)
(* C11: normalize strips exactly one layer of surrounding double quotes:   *)
(* for every string p, normalize(p) is p with the surrounding whitespace   *)
(* trimmed and then at most one leading and at most one trailing double    *)
(* quote removed, so a value wrapped in two layers keeps its inner layer.  *)
(* The code does not do this: trim_start_matches and trim_end_matches      *)
(* remove every repetition of the quote, and a second trim follows.        *)
(***************************************************************************)
C11_StripsOneLayer ==
    nstage >= 1 =>
        LET t == Trim(np)
            a == IF t # <<>> /\ Head(t) = Quote THEN Tail(t) ELSE t
            b == IF a # <<>> /\ Last(a) = Quote THEN Front(a) ELSE a
        IN  n1 = b

(***************************************************************************)
(* C12: Quoting rule.  After a successful set_autostart(true) with         *)
(* executable path p, the value stored under the fixed name is exactly     *)
(* '"' + p + '"' when p contains a space and exactly p when it does not.   *)
(***************************************************************************)
C12_QuotingRule ==
    (apc = "idle" /\ enabled /\ ret.status = "ok") =>
        /\ run_value.present
        /\ run_value.data =
               IF \E i \in 1..Len(exe_str) : exe_str[i] = " "
               THEN <<"\"">> \o exe_str \o <<"\"">>
               ELSE exe_str

\* An enable has succeeded for a path with a space, over a store that held
\* something else, and the value is the quoted path.
C12_Witness ==
    /\ apc = "idle"
    /\ enabled
    /\ ret.status = "ok"
    /\ Contains(exe_str, Space)
    /\ Len(run_value.data) = Len(exe_str) + 2
    /\ tries > 1

(***************************************************************************)
(* storage.rs harness: load_window_config and save_window_config applied   *)
(* to every state of window.json, one call at a time.  Only                *)
(* save_window_config changes the file.                                    *)
(***************************************************************************)
StorInit ==
    /\ disk \in DiskStates
    /\ loadRet = NoConfig
    /\ saveRet = [status |-> "none", config |-> default_window_config]

\* load_window_config, lines 165-181.
StorageLoad ==
    /\ loadRet' = LoadResult(disk)
    /\ UNCHANGED <<disk, saveRet, normVars, autoVars, winVars, bootVars>>

\* save_window_config, lines 187-192; nothing has been loaded since.
StorageSave(config, writeOk) ==
    LET r == SaveResult(disk, config, writeOk)
    IN  /\ disk' = r.disk
        /\ saveRet' = [status |-> r.status, config |-> config]
        /\ loadRet' = NoConfig
        /\ UNCHANGED <<normVars, autoVars, winVars, bootVars>>

StorNext ==
    \/ StorageLoad
    \/ \E config \in Configs, writeOk \in BOOLEAN : StorageSave(config, writeOk)

InitStorage ==
    StorInit /\ BootParked /\ NormParked /\ AutoParked /\ WinParked

SpecStorage == InitStorage /\ [][StorNext]_vars

(***************************************************************************)
(* C13: load_window_config never fails outward: whatever the state of the  *)
(* persisted record (missing, unreadable, malformed, valid) it returns a   *)
(* WindowConfig, and in the missing, unreadable and malformed cases        *)
(* exactly the default {100, 100, true}.                                   *)
(* The code returns Err for a file it cannot read (line 170).  (It also    *)
(* returns Err when the path cannot be resolved, line 166, a case the      *)
(* formula leaves aside.)                                                  *)
(***************************************************************************)
C13_LoadNeverFails ==
    (loadRet.status # "none" /\ disk.kind # "nodir") =>
        /\ loadRet.status = "ok"
        /\ disk.kind \in {"missing", "unreadable", "malformed"} =>
               loadRet.config = [x |-> 100, y |-> 100, always_on_top |-> TRUE]

(***************************************************************************)
(* C14: per-field defaults and round trip.  For a well-formed record       *)
(* holding any subset of the keys x, y, alwaysOnTop, load_window_config    *)
(* returns the present fields unchanged and 100, 100, true for the absent  *)
(* ones; and a load that follows a successful save_window_config(c)        *)
(* returns exactly c.                                                      *)
(***************************************************************************)
C14_FieldDefaultsAndRoundTrip ==
    /\ (loadRet.status # "none" /\ disk.kind = "record") =>
           /\ loadRet.status = "ok"
           /\ loadRet.config.x =
                  IF "x" \in DOMAIN disk.obj THEN disk.obj["x"].int ELSE 100
           /\ loadRet.config.y =
                  IF "y" \in DOMAIN disk.obj THEN disk.obj["y"].int ELSE 100
           /\ loadRet.config.always_on_top =
                  IF "alwaysOnTop" \in DOMAIN disk.obj
                  THEN disk.obj["alwaysOnTop"].bool ELSE TRUE
    /\ (saveRet.status = "ok" /\ loadRet.status # "none") =>
           loadRet = [status |-> "ok", config |-> saveRet.config]

\* A record without defaults in it was saved and loaded back.
C14_Witness ==
    /\ saveRet.status = "ok"
    /\ loadRet.status = "ok"
    /\ loadRet.config = [x |-> 5, y |-> -7, always_on_top |-> FALSE]

(***************************************************************************)
(* Startup (lib.rs run(), the setup closure, lines 98-172): restore the    *)
(* always-on-top flag and the position from window.json, then install the  *)
(* Moved listener and the debounce worker.  The closure runs once, on the  *)
(* main thread; it is one action.                                          *)
(*                                                                         *)
(* Arithmetic is on i32.  A sum that leaves the i32 range panics in a      *)
(* build with overflow checks (debug) and wraps around in one without      *)
(* (release); which build runs is fixed from the start.                    *)
(***************************************************************************)
\* i32::MAX
I32_MAX == 2147483647

I32_MIN == -I32_MAX - 1

\* lib.rs line 114: let width = 320u32
WINDOW_WIDTH == 320

\* lib.rs line 115: let height = 400u32
WINDOW_HEIGHT == 400

\* a + b on i32, b >= 0: the wrapped value and whether the sum left the
\* range.  The wrapped value a + b - 2^32 is computed without leaving it.
AddI32(a, b) ==
    IF a > I32_MAX - b
    THEN [val |-> ((a - I32_MAX) + (b - I32_MAX)) - 2, overflow |-> TRUE]
    ELSE [val |-> a + b, overflow |-> FALSE]

\* The displays enumerated: the one of the spec's example at the origin, one
\* to its right, one at (3000, 3000), and one whose right edge lies beyond
\* i32::MAX.  Sizes are u32 in the code; those enumerated fit in i32, so
\* `as i32` leaves them as they are.
Monitor(px, py, w, h) == [pos |-> [x |-> px, y |-> py], size |-> [w |-> w, h |-> h]]

Monitors ==
    {Monitor(0, 0, 1920, 1080), Monitor(1920, 0, 1920, 1080),
     Monitor(3000, 3000, 1920, 1080), Monitor(I32_MAX - 1000, 0, 1920, 1080)}

NoMonitor == [some |-> FALSE, mon |-> Monitor(0, 0, 0, 0)]

SomeMonitor(m) == [some |-> TRUE, mon |-> m]

\* The persisted coordinates enumerated: on the first display, on the
\* second only, on the third only (with y = 3100), off every display and
\* outside [-32768, 32767], and next to i32::MAX.
BootXs == {0, 2000, 3100, 40000, I32_MAX - 500}

BootYs == {0, 3100, 40000}

\* One axis of the test, lines 88-89: `lo < (mlo + msize) && (lo + len) >
\* mlo`.  The left operand is evaluated first and the right one only when
\* the left one is true.
AxisOverlap(lo, len, mlo, msize) ==
    LET far == AddI32(mlo, msize)
        end == AddI32(lo, len)
    IN  IF lo < far.val
        THEN [value |-> end.val > mlo,
              overflow |-> far.overflow \/ end.overflow]
        ELSE [value |-> FALSE, overflow |-> far.overflow]

\* lib.rs lines 78-91.
is_position_valid_on_monitor(x, y, width, height, mon_pos, mon_size) ==
    LET x_overlap == AxisOverlap(x, width, mon_pos.x, mon_size.w)
        y_overlap == AxisOverlap(y, height, mon_pos.y, mon_size.h)
    IN  [value |-> x_overlap.value /\ y_overlap.value,
         overflow |-> x_overlap.overflow \/ y_overlap.overflow]

\* lib.rs lines 116-133: against the primary monitor when there is one,
\* else the numeric range check.  `all`, the displays attached, is not
\* looked at.
PositionValid(config, mon, all) ==
    IF mon.some
    THEN is_position_valid_on_monitor(
             config.x, config.y, WINDOW_WIDTH, WINDOW_HEIGHT,
             mon.mon.pos, mon.mon.size)
    ELSE [value |-> /\ config.x >= -32768
                    /\ config.x <= 32767
                    /\ config.y >= -32768
                    /\ config.y <= 32767,
          overflow |-> FALSE]

BootInit ==
    /\ persisted \in {ErrConfig} \cup
           {OkConfig([x |-> cx, y |-> cy, always_on_top |-> t]) :
                cx \in BootXs, cy \in BootYs, t \in BOOLEAN}
    /\ mainWindow \in BOOLEAN
    /\ monitors \in SUBSET Monitors
    /\ primary \in {NoMonitor} \cup {SomeMonitor(m) : m \in monitors}
    /\ build \in {"debug", "release"}
    /\ livePos = [x |-> 50, y |-> 50]
    /\ liveTop = FALSE
    /\ setupState = "start"
    /\ listening = FALSE
    /\ positionSet = FALSE
    /\ overflowed = FALSE

\* The setup closure, lines 98-172.
Setup(topOk, setOk) ==
    /\ setupState = "start"
    /\ IF persisted.status = "err" \/ ~mainWindow
       THEN \* lines 100-108: return Ok(()) at once
            /\ setupState' = "done"
            /\ UNCHANGED <<livePos, liveTop, listening, positionSet, overflowed>>
       ELSE LET config == persisted.config
                valid == PositionValid(config, primary, monitors)
            IN  \* line 111: the result of set_always_on_top is dropped
                /\ liveTop' = IF topOk THEN config.always_on_top ELSE liveTop
                /\ overflowed' = valid.overflow
                /\ IF valid.overflow /\ build = "debug"
                   THEN \* the addition panics
                        /\ setupState' = "panicked"
                        /\ UNCHANGED <<livePos, listening, positionSet>>
                   ELSE \* lines 135-137, then lines 140-170
                        /\ setupState' = "done"
                        /\ positionSet' = valid.value
                        /\ livePos' = IF valid.value /\ setOk
                                      THEN [x |-> config.x, y |-> config.y]
                                      ELSE livePos
                        /\ listening' = TRUE
    /\ UNCHANGED <<persisted, mainWindow, monitors, primary, build, storVars,
                   normVars, autoVars, winVars>>

BootNext == \E topOk, setOk \in BOOLEAN : Setup(topOk, setOk)

InitBoot == BootInit /\ StorParked /\ NormParked /\ AutoParked /\ WinParked

SpecBoot == InitBoot /\ [][BootNext]_vars

(***************************************************************************)
(* C15: restore validation against all displays.  At startup the persisted *)
(* position is applied if and only if the 320x400 rectangle at (x, y)      *)
(* overlaps, on both axes under the half-open test, at least one of the    *)
(* displays attached; with no monitor information, iff x and y lie in      *)
(* [-32768, 32767]; and when validation fails the position is untouched.   *)
(* The code tests the primary monitor alone.  (Startups in which a sum     *)
(* overflowed are left aside here; they are C19's.)                        *)
(***************************************************************************)
C15_ValidatedAgainstAllMonitors ==
    (setupState = "done" /\ persisted.status = "ok" /\ mainWindow
         /\ ~overflowed) =>
        LET x == persisted.config.x
            y == persisted.config.y
            OnMonitor(m) ==
                /\ x - m.pos.x < m.size.w
                /\ m.pos.x - x < 320
                /\ y - m.pos.y < m.size.h
                /\ m.pos.y - y < 400
            expected ==
                IF primary.some
                THEN \E m \in monitors : OnMonitor(m)
                ELSE /\ x >= -32768
                     /\ x <= 32767
                     /\ y >= -32768
                     /\ y <= 32767
        IN  /\ positionSet <=> expected
            /\ ~positionSet => livePos = [x |-> 50, y |-> 50]

(***************************************************************************)
(* C18: startup always installs the persister.  In every startup in which  *)
(* the main window exists, also when loading the persisted record fails,   *)
(* the Moved listener and the debounce worker are started.                 *)
(* The code returns from setup at line 102 when the load fails, before     *)
(* line 140.                                                               *)
(***************************************************************************)
C18_PersisterInstalled ==
    (setupState = "done" /\ mainWindow) => listening

(***************************************************************************)
(* C19: no panic in position validation.  For every persisted x and y and  *)
(* every monitor position and size, the overlap test completes with a      *)
(* boolean and none of its sums leaves the i32 range.                      *)
(* The sums are unchecked i32 additions: monitor origin + size leaves the  *)
(* range for a display whose far edge lies beyond i32::MAX.                *)
(***************************************************************************)
C19_NoOverflowInValidation ==
    setupState # "start" => (setupState = "done" /\ ~overflowed)

(***************************************************************************)
(* The non-Windows variant, autostart.rs lines 146-156.  Both functions    *)
(* are constants: they read nothing and write nothing.  The harness keeps  *)
(* the autostart variables, so that a store with an entry in it (brought   *)
(* over from elsewhere) and the executable path are there to be ignored;   *)
(* `enabled` records the argument of the last call, `ret` and `query` the  *)
(* two answers.                                                            *)
(***************************************************************************)

\* lines 146-150: Err("仅支持 Windows")
UnsupportedPlatform == ReturnErr("unsupported", 0, FALSE)

StubAnswerFromStore == EnabledTest(CurrentValue(run_value), exe_str)

\* lines 152-156: Ok(false)
StubEnabledAnswer == FALSE

\* set_autostart_impl(_enabled), lines 146-150.
StubSetAutostart(en) ==
    /\ enabled' = en
    /\ ret' = UnsupportedPlatform
    /\ UNCHANGED <<run_value, exe_str, apc, value, attempt, last_error,
                   tries, fails, slept, absentAtCall, lastSet, query,
                   normVars, winVars, auxVars>>

\* is_autostart_enabled_impl(), lines 152-156.
StubIsAutostartEnabled ==
    /\ query' = BoolName(StubEnabledAnswer)
    /\ UNCHANGED <<run_value, exe_str, apc, enabled, value, attempt,
                   last_error, ret, tries, fails, slept, absentAtCall,
                   lastSet, normVars, winVars, auxVars>>

StubNext ==
    \/ \E en \in BOOLEAN : StubSetAutostart(en)
    \/ StubIsAutostartEnabled

InitNonWindows == AutoInit /\ NormParked /\ WinParked /\ AuxParked

SpecNonWindows == InitNonWindows /\ [][StubNext]_vars

\* C16: in the non-Windows variant every set_autostart call, whatever its
\* argument, returns the unsupported-platform error; every
\* is_autostart_enabled call answers Ok(false), whatever the store holds;
\* and no call changes the store or the executable path.
C16_UnsupportedPlatform ==
    /\ [](ret.status # "none" => ret = UnsupportedPlatform)
    /\ [](query \in {"none", "false"})
    /\ [][/\ run_value' = run_value
          /\ exe_str' = exe_str
          /\ apc' = apc
          /\ value' = value]_vars

\* Both calls have happened, set_autostart with enabled = true, over a
\* store whose entry names this executable.
C16_Witness ==
    /\ ret = UnsupportedPlatform
    /\ enabled
    /\ query = "false"
    /\ EnabledTest(CurrentValue(run_value), exe_str)

(***************************************************************************)
(* set_always_on_top observed call by call: the window model with the      *)
(* call record kept.                                                       *)
(***************************************************************************)
InitToggle ==
    WinInit("call") /\ AutoParked /\ NormParked /\ AuxParked

SpecToggle == InitToggle /\ [][Next]_vars

\* C17: a set_always_on_top(enabled) call whose apply fails returns Err
\* and leaves both the live flag and window.json as they were.  Otherwise
\* the live flag becomes enabled and one record is saved: the position is
\* the live one if it can be read, else the persisted one if the record can
\* be loaded (the defaults when there is no file), else (100, 100), and
\* always_on_top is enabled; a failed save leaves the file as it was and
\* the call returns Err.  After Ok the live flag and the persisted flag
\* both equal enabled.
C17_ToggleOrderingAndFallback ==
    [][tcall'.seq # tcall.seq =>
        LET c == tcall'
            persistedPos == IF file.present
                            THEN [x |-> file.config.x, y |-> file.config.y]
                            ELSE [x |-> 100, y |-> 100]
            position == IF c.posOk THEN winPos
                        ELSE IF c.loadOk THEN persistedPos
                        ELSE [x |-> 100, y |-> 100]
        IN  /\ winPos' = winPos
            /\ IF ~c.applyOk
               THEN c.ret = "err" /\ file' = file /\ winTop' = winTop
               ELSE /\ winTop' = c.en
                    /\ IF c.saveOk
                       THEN /\ c.ret = "ok"
                            /\ file' = [present |-> TRUE,
                                        config |-> [x |-> position.x,
                                                    y |-> position.y,
                                                    always_on_top |-> c.en]]
                       ELSE c.ret = "err" /\ file' = file
            /\ c.ret = "ok" =>
                   /\ winTop' = c.en
                   /\ file'.present
                   /\ file'.config.always_on_top = c.en]_vars

\* A call has just returned Ok having fallen back on the persisted
\* position, which is neither the live one nor (100, 100): no Moved event
\* has been sent, so only calls have written the file.
C17_Witness ==
    /\ tcall.ret = "ok"
    /\ ~tcall.posOk
    /\ tcall.loadOk
    /\ moves = 0
    /\ winTop = tcall.en
    /\ file = FileWith(WindowConfig([x |-> 640, y |-> 480], tcall.en))
    /\ winPos = [x |-> 100, y |-> 100]

\* C20: the debounce worker dispatches a write only for move events it has
\* consumed.  The dispatches made, and the one the worker is committed to
\* once it has consumed an event, never exceed the events consumed, hence
\* never the events sent; none is made while no event has been sent; the
\* worker reaches the dispatch only from a sleep that has run out with the
\* channel empty, and the dispatch count moves only there, by one.
C20_NoSpuriousWrites ==
    /\ [](dispatches + (IF wpc = "recv" THEN 0 ELSE 1) <= moves - Len(rx))
    /\ [](dispatches <= moves)
    /\ [](moves = 0 => dispatches = 0 /\ mainQueue = 0 /\ wpc = "recv")
    /\ [][(wpc' = "dispatch" /\ wpc # "dispatch") =>
              (wpc = "sleep" /\ sleepLeft = 0 /\ rx = <<>>)]_vars
    /\ [][dispatches' # dispatches =>
              (wpc = "dispatch" /\ dispatches' = dispatches + 1)]_vars
    /\ [][wpc' = "sleep" /\ sleepLeft' > sleepLeft =>
              (sleepLeft' = QUIESCENCE_MS /\ Len(rx') = Len(rx) - 1)]_vars

\* Two separate writes have been dispatched for the moves sent, and the
\* worker is back in recv() with nothing left to consume.
C20_Witness ==
    /\ dispatches = 2
    /\ moves >= 2
    /\ wpc = "recv"
    /\ rx = <<>>

=============================================================================
